---------------------------- MODULE Spec2Model ----------------------------
(***************************************************************************)
(* Model of api/index.js: the snapshot handler (fetch pages, trim, detect  *)
(* duplicates, deduplicate, chunk, upsert) and its pure utilities          *)
(* deduplicateByKey, findDuplicateIds and chunkArray.                      *)
(***************************************************************************)
EXTENDS Integers, Sequences, FiniteSets, TLC

(***************************************************************************)
(* Bounds of the model.                                                    *)
(***************************************************************************)
MaxTarget == 3
MaxPageLen == 2
MaxBatch == 2
MaxHeapChunks == 3
MaxLen == 3

(***************************************************************************)
(* Program constants.                                                      *)
(***************************************************************************)
BATCH_SIZE_DEFAULT == 200
CONFLICT_KEY == "id"

(***************************************************************************)
(* Market records: opaque except for the identifying key.                  *)
(***************************************************************************)
Ids == {1, 2}
Vals == {"a", "b"}
Records == [id : Ids, v : Vals]
PureVals == {"a", "b", "c"}
PureRecords == [id : Ids, v : PureVals]

SeqsUpTo(S, n) == UNION {[1..k -> S] : k \in 0..n}

Min(a, b) == IF a < b THEN a ELSE b
Max(a, b) == IF a > b THEN a ELSE b

(***************************************************************************)
(* Array.prototype.slice(start, end): negative indices count from the end, *)
(* both are clamped to [0, length]; indices here are 0-based as in JS.     *)
(***************************************************************************)
RelIndex(len, k) == IF k < 0 THEN Max(len + k, 0) ELSE Min(k, len)

slice(array, start, end) ==
  LET from == RelIndex(Len(array), start)
      to   == RelIndex(Len(array), end)
  IN  IF to <= from THEN << >> ELSE SubSeq(array, from + 1, to)

(***************************************************************************)
(* A JS Map as the sequence of its entries in insertion order.  map.set on *)
(* a key already present replaces the value and keeps the entry's place;   *)
(* on a new key it appends the entry.                                      *)
(***************************************************************************)
MapHas(map, k) == \E j \in 1..Len(map) : map[j][1] = k

MapSet(map, k, val) ==
  IF MapHas(map, k)
    THEN [j \in 1..Len(map) |-> IF map[j][1] = k THEN <<k, val>> ELSE map[j]]
    ELSE Append(map, <<k, val>>)

MapValues(map) == [j \in 1..Len(map) |-> map[j][2]]

(***************************************************************************)
(* A JS Set as the sequence of its elements in insertion order.            *)
(***************************************************************************)
SetHas(set, x) == \E j \in 1..Len(set) : set[j] = x

SetAdd(set, x) == IF SetHas(set, x) THEN set ELSE Append(set, x)

(***************************************************************************)
(* deduplicateByKey(data, key)                                             *)
(***************************************************************************)
RECURSIVE DedupLoop(_, _, _, _)
DedupLoop(data, key, n, map) ==
  IF n > Len(data) THEN map
  ELSE DedupLoop(data, key, n + 1, MapSet(map, data[n][key], data[n]))

\* Mutant: the first record of a key is kept (map.has guard before map.set).
RECURSIVE DedupLoopFirstWins(_, _, _, _)
DedupLoopFirstWins(data, key, n, map) ==
  IF n > Len(data) THEN map
  ELSE DedupLoopFirstWins(data, key, n + 1,
         IF MapHas(map, data[n][key]) THEN map ELSE MapSet(map, data[n][key], data[n]))

deduplicateByKeyFirstWins(data, key) == MapValues(DedupLoopFirstWins(data, key, 1, << >>))

\* Mutant: map.delete before map.set, so a refreshed key moves to the end.
MapDelete(map, k) == SelectSeq(map, LAMBDA e : e[1] # k)

RECURSIVE DedupLoopMoveLast(_, _, _, _)
DedupLoopMoveLast(data, key, n, map) ==
  IF n > Len(data) THEN map
  ELSE DedupLoopMoveLast(data, key, n + 1,
         Append(MapDelete(map, data[n][key]), <<data[n][key], data[n]>>))

deduplicateByKeyMoveLast(data, key) == MapValues(DedupLoopMoveLast(data, key, 1, << >>))

deduplicateByKey(data, key) == MapValues(DedupLoop(data, key, 1, << >>))

(***************************************************************************)
(* findDuplicateIds(data, key)                                             *)
(***************************************************************************)
RECURSIVE FindLoop(_, _, _, _, _)
FindLoop(data, key, n, seen, dupes) ==
  IF n > Len(data) THEN dupes
  ELSE LET id == data[n][key]
       IN  IF SetHas(seen, id)
             THEN FindLoop(data, key, n + 1, seen, SetAdd(dupes, id))
             ELSE FindLoop(data, key, n + 1, SetAdd(seen, id), dupes)

findDuplicateIds(data, key) == FindLoop(data, key, 1, << >>, << >>)

(***************************************************************************)
(* chunkArray(array, size): the loop test, the loop body and the whole     *)
(* loop.  The whole loop is only evaluated where it exits (size > 0 or an  *)
(* empty array); the handler runs the loop one iteration per step.         *)
(***************************************************************************)
ChunkLoopTest(array, i) == i < Len(array)

\* Mutant: slice(i, size) in place of slice(i, i + size).
ChunkPushAbsoluteEnd(chunks, array, i, size) == Append(chunks, slice(array, i, size))

ChunkPush(chunks, array, i, size) == Append(chunks, slice(array, i, i + size))

ChunkAdvance(i, size) == i + size

RECURSIVE ChunkLoop(_, _, _, _)
ChunkLoop(array, size, i, chunks) ==
  IF ChunkLoopTest(array, i)
    THEN ChunkLoop(array, size, ChunkAdvance(i, size), ChunkPush(chunks, array, i, size))
    ELSE chunks

chunkArray(array, size) == ChunkLoop(array, size, 0, << >>)

(***************************************************************************)
(* parseInt(process.env.X, 10) || dflt, given parseInt's result: NaN and 0 *)
(* are falsy and give the default, every other integer is kept.            *)
(***************************************************************************)
NaN == [nan |-> TRUE, val |-> 0]
Num(n) == [nan |-> FALSE, val |-> n]

OrDefault(parsed, dflt) == IF parsed.nan \/ parsed.val = 0 THEN dflt ELSE parsed.val


(***************************************************************************)
(* What the two collaborators can answer.  A fetch resolves to a decoded   *)
(* JSON value (an array of records, possibly empty, or a value that is not *)
(* an array) or throws: a non-ok status (fetchPage's own Error) or a body  *)
(* that res.json() cannot decode.  An upsert returns or yields an error.   *)
(***************************************************************************)
Pages == SeqsUpTo(Records, MaxPageLen)
JsonValues == [isArray : {TRUE}, items : Pages] \cup {[isArray |-> FALSE, items |-> << >>]}
FetchErrors == {"CoinGecko API error: 500 Internal Server Error", "invalid json response body"}
UpsertErrors == {"permission denied for table snapshot", "statement timeout"}

TargetValues == 1..MaxTarget
TargetValuesEnv == TargetValues \cup {-1}
BatchParsed == {Num(n) : n \in (-1)..MaxBatch} \cup {NaN}
BatchParsedValid == {Num(n) : n \in 0..MaxBatch} \cup {NaN}

VARIABLES
  TARGET,        \* const TARGET
  BATCH_SIZE,    \* const BATCH_SIZE
  hasRes,        \* whether the handler was given a response object
  pc,            \* the handler's position
  allData,       \* handler: allData
  page,          \* handler: page
  sliced,        \* handler: sliced
  dupes,         \* handler: dupes
  warned,        \* whether the duplicate warning was logged
  deduplicated,  \* handler: deduplicated
  chunkI,        \* chunkArray: i
  chunks,        \* chunkArray: chunks, then handler: chunks
  batchI,        \* handler: index of the upsert loop (1-based)
  requested,     \* history: page numbers passed to fetchPage, in order
  fetched,       \* history: decoded values fetchPage returned, in order
  submitted,     \* history: batches passed to upsertBatch, in order
  accepted,      \* history: batches the store accepted, in order
  failedCall,    \* history: the calls that threw, in order
  responses,     \* outcomes sent through res, in order
  pIn,           \* utilities: the input sequence
  pSize,         \* utilities: the chunk size
  pFn,           \* utilities: which function was applied
  pOut           \* utilities: its result

cfgVars == <<TARGET, BATCH_SIZE, hasRes>>
fetchVars == <<allData, page, requested, fetched>>
midVars == <<sliced, dupes, warned, deduplicated>>
chunkVars == <<chunkI, chunks>>
upsertVars == <<batchI, submitted, accepted>>
outVars == <<failedCall, responses>>
pureVars == <<pIn, pSize, pFn, pOut>>
vars == <<cfgVars, pc, fetchVars, midVars, chunkVars, upsertVars, outVars, pureVars>>

HandlerStart ==
  /\ pc = "Idle"
  /\ allData = << >> /\ page = 1
  /\ sliced = << >> /\ dupes = << >> /\ warned = FALSE /\ deduplicated = << >>
  /\ chunkI = 0 /\ chunks = << >> /\ batchI = 1
  /\ requested = << >> /\ fetched = << >> /\ submitted = << >> /\ accepted = << >>
  /\ failedCall = << >> /\ responses = << >>

PureIdle == pIn = << >> /\ pSize = 1 /\ pFn = "none" /\ pOut = << >>

\* a configuration of sizes: a positive target, a positive or defaulted batch size
Init ==
  /\ TARGET \in TargetValues
  /\ BATCH_SIZE \in {OrDefault(b, BATCH_SIZE_DEFAULT) : b \in BatchParsedValid}
  /\ hasRes \in BOOLEAN
  /\ HandlerStart
  /\ PureIdle

\* every configuration lines 26-28 accept: any integer but 0
InitEnv ==
  /\ TARGET \in TargetValuesEnv
  /\ BATCH_SIZE \in {OrDefault(b, BATCH_SIZE_DEFAULT) : b \in BatchParsed}
  /\ hasRes \in BOOLEAN
  /\ HandlerStart
  /\ PureIdle

(***************************************************************************)
(* The catch block: log, and report status 500 with err.message when a     *)
(* response object was given.                                              *)
(***************************************************************************)
Catch(op, n, message) ==
  /\ failedCall' = Append(failedCall, [op |-> op, n |-> n, message |-> message])
  /\ responses' = IF hasRes
                    THEN Append(responses, [status |-> 500, error |-> message])
                    ELSE responses
  /\ pc' = "Failed"

(***************************************************************************)
(* handler: entry, the fetch loop and the trim.                            *)
(***************************************************************************)
Start ==
  /\ pc = "Idle"
  /\ pc' = "Fetching"
  /\ allData' = << >>
  /\ page' = 1
  /\ UNCHANGED <<cfgVars, requested, fetched, midVars, chunkVars, upsertVars, outVars, pureVars>>

\* Mutant: the loop test is allData.length <= TARGET.
FetchCallInclusive ==
  /\ pc = "Fetching"
  /\ Len(allData) <= TARGET
  /\ requested' = Append(requested, page)
  /\ pc' = "AwaitFetch"
  /\ UNCHANGED <<cfgVars, allData, page, fetched, midVars, chunkVars, upsertVars, outVars, pureVars>>

FetchCall ==
  /\ pc = "Fetching"
  /\ Len(allData) < TARGET
  /\ requested' = Append(requested, page)
  /\ pc' = "AwaitFetch"
  /\ UNCHANGED <<cfgVars, allData, page, fetched, midVars, chunkVars, upsertVars, outVars, pureVars>>

FetchLoopExit ==
  /\ pc = "Fetching"
  /\ ~(Len(allData) < TARGET)
  /\ pc' = "Trimming"
  /\ UNCHANGED <<cfgVars, fetchVars, midVars, chunkVars, upsertVars, outVars, pureVars>>

\* !Array.isArray(pageData) || pageData.length === 0
IsEndPage(r) == ~r.isArray \/ Len(r.items) = 0

\* Mutant: the break tests pageData.length === 0 only, not Array.isArray.
FetchReturnNoArrayCheck(pageData) ==
  /\ pc = "AwaitFetch"
  /\ fetched' = Append(fetched, pageData)
  /\ IF pageData.isArray /\ Len(pageData.items) = 0
       THEN /\ pc' = "Trimming"
            /\ UNCHANGED <<allData, page>>
       ELSE /\ allData' = allData \o pageData.items
            /\ page' = page + 1
            /\ pc' = "Fetching"
  /\ UNCHANGED <<cfgVars, requested, midVars, chunkVars, upsertVars, outVars, pureVars>>

FetchReturn(pageData) ==
  /\ pc = "AwaitFetch"
  /\ fetched' = Append(fetched, pageData)
  /\ IF IsEndPage(pageData)
       THEN /\ pc' = "Trimming"
            /\ UNCHANGED <<allData, page>>
       ELSE /\ allData' = allData \o pageData.items
            /\ page' = page + 1
            /\ pc' = "Fetching"
  /\ UNCHANGED <<cfgVars, requested, midVars, chunkVars, upsertVars, outVars, pureVars>>

FetchThrow(message) ==
  /\ pc = "AwaitFetch"
  /\ Catch("fetch", page, message)
  /\ UNCHANGED <<cfgVars, fetchVars, midVars, chunkVars, upsertVars, pureVars>>

\* Mutant: no slice, the accumulated sequence is used as it is.
TrimNothing ==
  /\ pc = "Trimming"
  /\ sliced' = allData
  /\ pc' = "Detecting"
  /\ UNCHANGED <<cfgVars, fetchVars, dupes, warned, deduplicated, chunkVars, upsertVars, outVars, pureVars>>

Trim ==
  /\ pc = "Trimming"
  /\ sliced' = slice(allData, 0, TARGET)
  /\ pc' = "Detecting"
  /\ UNCHANGED <<cfgVars, fetchVars, dupes, warned, deduplicated, chunkVars, upsertVars, outVars, pureVars>>

(***************************************************************************)
(* handler: duplicate detection (a warning only) and deduplication.        *)
(***************************************************************************)
Detect ==
  /\ pc = "Detecting"
  /\ dupes' = findDuplicateIds(sliced, CONFLICT_KEY)
  /\ warned' = (Len(dupes') > 0)
  /\ pc' = "Deduplicating"
  /\ UNCHANGED <<cfgVars, fetchVars, sliced, deduplicated, chunkVars, upsertVars, outVars, pureVars>>

\* Mutant: the records of the duplicated ids are skipped, as the warning says.
DedupSkippingDupes ==
  /\ pc = "Deduplicating"
  /\ deduplicated' = SelectSeq(sliced, LAMBDA r : ~SetHas(dupes, r[CONFLICT_KEY]))
  /\ chunkI' = 0
  /\ chunks' = << >>
  /\ pc' = "Chunking"
  /\ UNCHANGED <<cfgVars, fetchVars, sliced, dupes, warned, upsertVars, outVars, pureVars>>

Dedup ==
  /\ pc = "Deduplicating"
  /\ deduplicated' = deduplicateByKey(sliced, CONFLICT_KEY)
  /\ chunkI' = 0
  /\ chunks' = << >>
  /\ pc' = "Chunking"
  /\ UNCHANGED <<cfgVars, fetchVars, sliced, dupes, warned, upsertVars, outVars, pureVars>>

(***************************************************************************)
(* handler: chunkArray(deduplicated, BATCH_SIZE), one loop iteration per   *)
(* step.  The heap has room for MaxHeapChunks chunks, more than a positive *)
(* size ever needs.  With a negative size the index only moves away from   *)
(* the length and every iteration pushes one more chunk: the push that     *)
(* finds the heap full aborts the process (out of memory is not an         *)
(* exception: the catch block does not run and nothing is reported).       *)
(***************************************************************************)
ChunkStep ==
  /\ pc = "Chunking"
  /\ ChunkLoopTest(deduplicated, chunkI)
  /\ IF Len(chunks) < MaxHeapChunks
       THEN /\ chunks' = ChunkPush(chunks, deduplicated, chunkI, BATCH_SIZE)
            /\ chunkI' = ChunkAdvance(chunkI, BATCH_SIZE)
            /\ pc' = pc
       ELSE /\ pc' = "Crashed"
            /\ UNCHANGED chunkVars
  /\ UNCHANGED <<cfgVars, fetchVars, midVars, upsertVars, outVars, pureVars>>

ChunkExit ==
  /\ pc = "Chunking"
  /\ ~ChunkLoopTest(deduplicated, chunkI)
  /\ batchI' = 1
  /\ pc' = "Upserting"
  /\ UNCHANGED <<cfgVars, fetchVars, midVars, chunkVars, submitted, accepted, outVars, pureVars>>

(***************************************************************************)
(* handler: the upsert loop and the success response.                      *)
(***************************************************************************)
UpsertCall ==
  /\ pc = "Upserting"
  /\ batchI <= Len(chunks)
  /\ submitted' = Append(submitted, chunks[batchI])
  /\ pc' = "AwaitUpsert"
  /\ UNCHANGED <<cfgVars, fetchVars, midVars, chunkVars, batchI, accepted, outVars, pureVars>>

UpsertReturn ==
  /\ pc = "AwaitUpsert"
  /\ accepted' = Append(accepted, chunks[batchI])
  /\ batchI' = batchI + 1
  /\ pc' = "Upserting"
  /\ UNCHANGED <<cfgVars, fetchVars, midVars, chunkVars, submitted, outVars, pureVars>>

\* Mutant: a rejected batch is logged and the loop goes on to the next batch.
UpsertThrowSwallowed(message) ==
  /\ pc = "AwaitUpsert"
  /\ failedCall' = Append(failedCall, [op |-> "upsert", n |-> batchI, message |-> message])
  /\ batchI' = batchI + 1
  /\ pc' = "Upserting"
  /\ UNCHANGED <<cfgVars, fetchVars, midVars, chunkVars, submitted, accepted, responses, pureVars>>

UpsertThrow(message) ==
  /\ pc = "AwaitUpsert"
  /\ Catch("upsert", batchI, message)
  /\ UNCHANGED <<cfgVars, fetchVars, midVars, chunkVars, upsertVars, pureVars>>

\* Mutant: the total reported is sliced.length.
RespondSlicedTotal ==
  /\ pc = "Upserting"
  /\ batchI > Len(chunks)
  /\ responses' = IF hasRes
                    THEN Append(responses, [status |-> 200, total |-> Len(sliced)])
                    ELSE responses
  /\ pc' = "Done"
  /\ UNCHANGED <<cfgVars, fetchVars, midVars, chunkVars, upsertVars, failedCall, pureVars>>

Respond ==
  /\ pc = "Upserting"
  /\ batchI > Len(chunks)
  /\ responses' = IF hasRes
                    THEN Append(responses, [status |-> 200, total |-> Len(deduplicated)])
                    ELSE responses
  /\ pc' = "Done"
  /\ UNCHANGED <<cfgVars, fetchVars, midVars, chunkVars, upsertVars, failedCall, pureVars>>

Next ==
  \/ Start
  \/ FetchCall
  \/ FetchLoopExit
  \/ \E pageData \in JsonValues : FetchReturn(pageData)
  \/ \E message \in FetchErrors : FetchThrow(message)
  \/ Trim
  \/ Detect
  \/ Dedup
  \/ ChunkStep
  \/ ChunkExit
  \/ UpsertCall
  \/ UpsertReturn
  \/ \E message \in UpsertErrors : UpsertThrow(message)
  \/ Respond

Spec == Init /\ [][Next]_vars

(***************************************************************************)
(* The handler under every configuration lines 26-28 accept, a negative    *)
(* TARGET included.  Every awaited call returns and the handler is the     *)
(* only flow of control, so an enabled step is eventually taken.           *)
(***************************************************************************)
SpecEnv == InitEnv /\ [][Next]_vars /\ WF_vars(Next)

(***************************************************************************)
(* The same, for the configurations of Init.                               *)
(***************************************************************************)
SpecFair == Spec /\ WF_vars(Next)

(***************************************************************************)
(* The utilities on their own: an input sequence and a chunk size are      *)
(* drawn, then one of the three functions is applied to them.              *)
(***************************************************************************)
InitPure ==
  /\ TARGET = 1 /\ BATCH_SIZE = 1 /\ hasRes = FALSE
  /\ HandlerStart
  /\ pIn \in SeqsUpTo(PureRecords, MaxLen)
  /\ pSize \in 1..MaxBatch
  /\ pFn = "none"
  /\ pOut = << >>

Apply(fn, out) ==
  /\ pFn = "none"
  /\ pFn' = fn
  /\ pOut' = out
  /\ UNCHANGED <<cfgVars, pc, fetchVars, midVars, chunkVars, upsertVars, outVars, pIn, pSize>>

ApplyDeduplicate == Apply("deduplicateByKey", deduplicateByKey(pIn, CONFLICT_KEY))

ApplyFindDuplicates == Apply("findDuplicateIds", findDuplicateIds(pIn, CONFLICT_KEY))

ApplyChunk == Apply("chunkArray", chunkArray(pIn, pSize))

NextPure ==
  \/ ApplyDeduplicate
  \/ ApplyFindDuplicates
  \/ ApplyChunk

SpecPure == InitPure /\ [][NextPure]_vars

(***************************************************************************)
(* Vocabulary of the properties.                                           *)
(***************************************************************************)
KeysOf(data) == {data[n][CONFLICT_KEY] : n \in 1..Len(data)}

Positions(data, k) == {n \in 1..Len(data) : data[n][CONFLICT_KEY] = k}

FirstIndex(data, k) == CHOOSE n \in Positions(data, k) : \A m \in Positions(data, k) : n <= m

LastIndex(data, k) == CHOOSE n \in Positions(data, k) : \A m \in Positions(data, k) : n >= m

RECURSIVE Flatten(_)
Flatten(seqs) == IF seqs = << >> THEN << >> ELSE Head(seqs) \o Flatten(Tail(seqs))

RECURSIVE SumLen(_)
SumLen(seqs) == IF seqs = << >> THEN 0 ELSE Len(Head(seqs)) + SumLen(Tail(seqs))

Rec(i, val) == [id |-> i, v |-> val]

ScenarioInput == <<Rec(1, "a"), Rec(2, "b"), Rec(1, "c")>>

\* C2: deduplicateByKey returns exactly one record per distinct key of its
\* input (as many records as distinct keys, no key twice), and the record it
\* returns for a key is the last input record bearing that key.
C2_OnePerKeyLastWins ==
  pFn = "deduplicateByKey" =>
    /\ Len(pOut) = Cardinality(KeysOf(pIn))
    /\ KeysOf(pOut) = KeysOf(pIn)
    /\ \A a, b \in 1..Len(pOut) : pOut[a][CONFLICT_KEY] = pOut[b][CONFLICT_KEY] => a = b
    /\ \A a \in 1..Len(pOut) : pOut[a] = pIn[LastIndex(pIn, pOut[a][CONFLICT_KEY])]

C2_Witness ==
  /\ pFn = "deduplicateByKey"
  /\ Len(pIn) = 3
  /\ Cardinality(KeysOf(pIn)) = 2
  /\ \E k \in KeysOf(pIn) : pIn[FirstIndex(pIn, k)] # pIn[LastIndex(pIn, k)]
  /\ Len(pOut) = 2

\* C3 as stated: the records deduplicateByKey returns are ordered by the input
\* position of each key's last occurrence, so the scenario input gives key 2
\* before key 1.
C3_OrderedByLastOccurrence ==
  pFn = "deduplicateByKey" =>
    /\ \A a, b \in 1..Len(pOut) :
         a < b => LastIndex(pIn, pOut[a][CONFLICT_KEY]) < LastIndex(pIn, pOut[b][CONFLICT_KEY])
    /\ pIn = ScenarioInput => pOut = <<Rec(2, "b"), Rec(1, "c")>>

\* C3 amended: the records deduplicateByKey returns are ordered by the input
\* position of each key's first occurrence (a later record of a key replaces
\* the value in place), so the scenario input gives key 1 before key 2.
C3_OrderedByFirstOccurrence ==
  pFn = "deduplicateByKey" =>
    /\ \A a, b \in 1..Len(pOut) :
         a < b => FirstIndex(pIn, pOut[a][CONFLICT_KEY]) < FirstIndex(pIn, pOut[b][CONFLICT_KEY])
    /\ pIn = ScenarioInput => pOut = <<Rec(1, "c"), Rec(2, "b")>>

C3_Witness ==
  /\ pFn = "deduplicateByKey"
  /\ pIn = ScenarioInput
  /\ pOut = <<Rec(1, "c"), Rec(2, "b")>>

\* C4: the chunks chunkArray returns, concatenated in order, are the input
\* sequence; every chunk but the last has exactly the batch size, the last
\* has between 1 and the batch size elements, and an empty input gives no
\* chunks.
C4_ChunksPartitionInput ==
  pFn = "chunkArray" =>
    /\ Flatten(pOut) = pIn
    /\ \A j \in 1..Len(pOut) :
         IF j < Len(pOut) THEN Len(pOut[j]) = pSize
                          ELSE Len(pOut[j]) >= 1 /\ Len(pOut[j]) <= pSize
    /\ pIn = << >> => pOut = << >>

C4_Witness ==
  /\ pFn = "chunkArray"
  /\ Len(pIn) = 3
  /\ pSize = 2
  /\ Len(pOut) = 2
  /\ Len(pOut[1]) = 2
  /\ Len(pOut[2]) = 1

(***************************************************************************)
(* Vocabulary of the handler's properties.                                 *)
(***************************************************************************)
PageItems(rs) == [n \in 1..Len(rs) |-> rs[n].items]

SourceEnded == Len(fetched) > 0 /\ IsEndPage(fetched[Len(fetched)])

FetchFailed == failedCall # << >> /\ failedCall[1].op = "fetch"

\* the fetch loop has ended normally and its result has been trimmed
Trimmed == pc \notin {"Idle", "Fetching", "AwaitFetch", "Trimming"} /\ ~FetchFailed

\* the deduplicated sequence has been computed
Deduplicated == Trimmed /\ pc \notin {"Detecting", "Deduplicating"}

Prefix(a, b) == Len(a) <= Len(b) /\ a = SubSeq(b, 1, Len(a))

Terminal == pc \in {"Done", "Failed"}

\* C1: the trimmed sequence is the start of the records the source returned,
\* has at most TARGET records, and has fewer than TARGET only if the last
\* page the source returned was empty or not an array.
C1_TrimmedAtMostTarget ==
  Trimmed =>
    /\ Len(sliced) <= TARGET
    /\ Prefix(sliced, Flatten(PageItems(fetched)))
    /\ Len(sliced) < TARGET => SourceEnded /\ sliced = Flatten(PageItems(fetched))

\* pages of 1, 1 and 0 records with a target of 3 give 2 records
C1_Witness ==
  /\ Trimmed
  /\ TARGET = 3
  /\ Len(fetched) = 3
  /\ Len(fetched[1].items) = 1 /\ Len(fetched[2].items) = 1
  /\ fetched[3].isArray /\ Len(fetched[3].items) = 0
  /\ Len(sliced) = 2

\* C5: the first fetch or upsert call that throws ends the invocation: it is
\* the only call that throws, no call is issued after it, and the outcome is a
\* failure carrying its message.  If it is the upsert of batch N, batches 1..N
\* are the ones submitted, in order, and 1..N-1 the ones accepted; if it is a
\* fetch, no batch was submitted.
C5_FirstFailureEnds ==
  /\ [](failedCall # << >> =>
          /\ Len(failedCall) = 1
          /\ pc = "Failed"
          /\ responses = IF hasRes
                           THEN <<[status |-> 500, error |-> failedCall[1].message]>>
                           ELSE << >>
          /\ failedCall[1].op = "upsert" =>
               /\ failedCall[1].n = Len(submitted)
               /\ submitted = SubSeq(chunks, 1, failedCall[1].n)
               /\ accepted = SubSeq(chunks, 1, failedCall[1].n - 1)
          /\ failedCall[1].op = "fetch" =>
               /\ submitted = << >>
               /\ failedCall[1].n = Len(requested)
               /\ Len(allData) = SumLen(PageItems(fetched)))
  /\ [][failedCall = << >> /\ pc # "Failed"]_vars

\* the upsert of batch 1 of 2 fails: batch 2 is never submitted
C5_Witness ==
  /\ pc = "Failed"
  /\ failedCall # << >>
  /\ failedCall[1].op = "upsert"
  /\ failedCall[1].n = 1
  /\ Len(chunks) = 2
  /\ Len(submitted) = 1
  /\ accepted = << >>
  /\ hasRes

\* C6 as stated: a response that cannot be decoded as a page, be it a body
\* that is not JSON or a JSON value that is not an array, ends the fetching
\* and does not fail the invocation.
C6_UndecodableNotFatal ==
  /\ FetchFailed => failedCall[1].message # "invalid json response body"
  /\ SourceEnded => ~FetchFailed /\ pc \notin {"Fetching", "AwaitFetch"}

\* C6 amended: a response that decodes to a JSON value that is not an array
\* ends the fetching and does not fail the invocation: no page is requested
\* after it and the records of the earlier pages are trimmed, deduplicated and
\* upserted as usual.  A response whose body cannot be decoded as JSON makes
\* fetchPage throw: the invocation fails with that message and no batch is
\* submitted.
C6_NonArrayEndsDataBadBodyFails ==
  /\ (Len(fetched) > 0 /\ ~fetched[Len(fetched)].isArray) =>
       /\ pc \notin {"Fetching", "AwaitFetch"}
       /\ Len(requested) = Len(fetched)
       /\ ~FetchFailed
       /\ allData = Flatten(PageItems(SubSeq(fetched, 1, Len(fetched) - 1)))
       /\ Trimmed => sliced = slice(allData, 0, TARGET)
       /\ Deduplicated => deduplicated = deduplicateByKey(sliced, CONFLICT_KEY)
       /\ pc = "Done" => Flatten(accepted) = deduplicated
  /\ (FetchFailed /\ failedCall[1].message = "invalid json response body") =>
       /\ pc = "Failed"
       /\ submitted = << >>
       /\ hasRes => responses = <<[status |-> 500, error |-> "invalid json response body"]>>

C6_Witness ==
  /\ pc = "Done"
  /\ Len(fetched) = 2
  /\ ~fetched[2].isArray
  /\ Len(fetched[1].items) = 2
  /\ Flatten(accepted) = fetched[1].items

\* C7: the pages requested are 1, 2, 3, ... in order; while a request is
\* outstanding every earlier response has been received and appended, none of
\* them was an empty or invalid page, and the accumulated length is below the
\* target; otherwise no request is outstanding.
C7_PagesSerial ==
  /\ \A n \in 1..Len(requested) : requested[n] = n
  /\ pc = "AwaitFetch" =>
       /\ Len(requested) = Len(fetched) + 1
       /\ page = Len(requested)
       /\ \A n \in 1..Len(fetched) : ~IsEndPage(fetched[n])
       /\ allData = Flatten(PageItems(fetched))
       /\ Len(allData) < TARGET
  /\ pc # "AwaitFetch" => Len(requested) = Len(fetched) + (IF FetchFailed THEN 1 ELSE 0)
  /\ \A n \in 1..Len(fetched) : IsEndPage(fetched[n]) => n = Len(fetched)

C7_Witness ==
  /\ pc = "AwaitFetch"
  /\ requested = <<1, 2, 3>>
  /\ Len(fetched) = 2
  /\ Len(allData) = 2

\* C8: a success outcome is reported only when every batch of the snapshot
\* has been submitted and accepted, in order; its total is the number of
\* deduplicated records, which is the sum of the sizes of the submitted
\* batches; and at most one outcome is reported.
C8_SuccessAfterAllBatches ==
  /\ Len(responses) <= 1
  /\ \A n \in 1..Len(responses) :
       responses[n].status = 200 =>
         /\ pc = "Done"
         /\ failedCall = << >>
         /\ chunks = chunkArray(deduplicated, BATCH_SIZE)
         /\ submitted = chunks
         /\ accepted = chunks
         /\ responses[n].total = Len(deduplicated)
         /\ responses[n].total = SumLen(submitted)
         /\ deduplicated = deduplicateByKey(sliced, CONFLICT_KEY)

C8_Witness ==
  /\ pc = "Done"
  /\ responses = <<[status |-> 200, total |-> 2]>>
  /\ Len(accepted) = 2
  /\ Len(sliced) = 3

C10_Terminates == <>Terminal /\ [](pc # "Crashed")

\* With a negative BATCH_SIZE and a record to chunk, an iteration of
\* chunkArray's loop leaves its test true: the loop has no exit.
ChunkLoopHasNoExit ==
  (pc = "Chunking" /\ BATCH_SIZE < 0 /\ ChunkLoopTest(deduplicated, chunkI)) =>
    ChunkLoopTest(deduplicated, ChunkAdvance(chunkI, BATCH_SIZE))

=============================================================================
